---------------------------- MODULE Spec2Model ----------------------------
(***************************************************************************)
(* A model of src/index.js: the lighting server.  Universes own a frame    *)
(* buffer, Channels write a colour into their Universe's buffer, and a     *)
(* self-rescheduling loop() runs every Channel update, then every Universe *)
(* send, once per tick.                                                    *)
(*                                                                         *)
(* Numbers.  The components of a colour are JavaScript numbers, IEEE 754   *)
(* doubles, and are computed as such: the candle brightness and the        *)
(* library's conversion from hsv to rgb round as the doubles do.  So are   *)
(* the times of the loop: Date.now() is a whole number of milliseconds,    *)
(* NOMINAL_DELAY the double (1 / 30) * 1000, and the frame's target and    *)
(* wait are the doubles the code computes from them.                       *)
(*                                                                         *)
(* Indices.  TLA+ sequences start at 1: slot i of a JavaScript array is    *)
(* element i + 1 of the sequence that models it.                           *)
(***************************************************************************)
EXTENDS Integers, Sequences, FiniteSets, TLC

VARIABLES
    universes,   \* config.get('universes'): sequence of [name, channels]
    channels,    \* config.get('channels'): sequence of channel configurations
    data,        \* data[u]: Universe u's slots (this.data), a sequence of bytes
    candle,      \* candle[c]: c._candle.flame of channel c, NoCandle before it is built
    pc,          \* position of the server's control flow
    sched,       \* "Idle", "Running" (the loop's promise is pending), "Stopped" (resolved)
    quit,        \* the quit flag
    frame,       \* the frame counter of loop
    start,       \* the reference timestamp of loop
    now,         \* the wall clock, Date.now()
    timers,      \* number of pending setTimeout(loop, wait) callbacks
    timerWait,   \* the wait the last timer was armed with
    inFlight,    \* number of activations of loop() between ++frame and their end
    ci,          \* within a tick: index of the next channel channels.map calls update on
    ui,          \* within a tick: index of the next universe universes.map calls send on
    updated,     \* channels whose update returned in the current tick
    raised,      \* channels whose update threw in the current tick
    sent,        \* universes whose send returned in the current tick
    pre,         \* data as it was before the last update() call
    value,       \* the array the last update() passed to _set, Undefined if none
    error,       \* the error the last update() threw, "" if it returned
    sim,         \* sim[c]: how often c._candle was built, and advanced by update()
    wire,        \* packets handed to the transport, client.send(packet, ...)
    log,         \* counters of log records: error 'frame wait is less than 0', fatal, ...
    done,        \* totals over the run: Channel updates called, sends called, timers armed
    exitCode     \* NoExit while the process lives, else its exit code

vars == <<universes, channels, data, candle, pc, sched, quit, frame, start, now,
          timers, timerWait, inFlight, ci, ui, updated, raised, sent, pre, value,
          error, sim, wire, log, done, exitCode>>

---------------------------------------------------------------------------
(* Bounds of the model *)

MaxFrame == 3        \* ticks explored per run
MaxChannels == 2     \* channels configured in a run of the server
MaxUniverses == 2    \* universes configured in a run of the server

(* Program constants *)

RATE == 30           \* const RATE = 30
Bytes == 256         \* a slot of the packet's Buffer holds a value modulo 256

NoCandle == -1
NoExit == -1
Undefined == <<>>


---------------------------------------------------------------------------
(* JavaScript numbers *)

\* A natural number of any size: the sequence of its digits in base
\* 2^LimbBits, lowest first, with no leading zero digit; <<>> is 0.
LimbBits == 15
Base == 2 ^ LimbBits

\* The bits of the significand of an IEEE 754 double
Precision == 53

RECURSIVE Trim(_)
Trim(a) ==
    IF a # <<>> /\ a[Len(a)] = 0 THEN Trim(SubSeq(a, 1, Len(a) - 1)) ELSE a

Digit(a, i) == IF i <= Len(a) THEN a[i] ELSE 0

RECURSIVE IntToBig(_)
IntToBig(n) == IF n = 0 THEN <<>> ELSE <<n % Base>> \o IntToBig(n \div Base)

RECURSIVE BigToInt(_)
BigToInt(a) == IF a = <<>> THEN 0 ELSE a[1] + Base * BigToInt(Tail(a))

RECURSIVE AddFrom(_, _, _, _)
AddFrom(a, b, i, carry) ==
    IF i > Len(a) /\ i > Len(b)
    THEN IntToBig(carry)
    ELSE LET sum == Digit(a, i) + Digit(b, i) + carry
         IN  <<sum % Base>> \o AddFrom(a, b, i + 1, sum \div Base)

BigAdd(a, b) == AddFrom(a, b, 1, 0)

RECURSIVE SubFrom(_, _, _, _)
SubFrom(a, b, i, borrow) ==
    IF i > Len(a)
    THEN <<>>
    ELSE LET diff == Digit(a, i) - Digit(b, i) - borrow
         IN  <<diff % Base>> \o SubFrom(a, b, i + 1, IF diff < 0 THEN 1 ELSE 0)

\* a - b, for a >= b
BigSub(a, b) == Trim(SubFrom(a, b, 1, 0))

RECURSIVE TimesFrom(_, _, _, _)
TimesFrom(a, d, i, carry) ==
    IF i > Len(a)
    THEN IntToBig(carry)
    ELSE LET prod == a[i] * d + carry
         IN  <<prod % Base>> \o TimesFrom(a, d, i + 1, prod \div Base)

\* a * d, for a digit d
BigTimes(a, d) == Trim(TimesFrom(a, d, 1, 0))

RECURSIVE BigMul(_, _)
BigMul(a, b) ==
    IF b = <<>> \/ a = <<>>
    THEN <<>>
    ELSE LET rest == BigMul(a, Tail(b))
         IN  BigAdd(BigTimes(a, b[1]), IF rest = <<>> THEN <<>> ELSE <<0>> \o rest)

RECURSIVE DivFrom(_, _, _, _)
DivFrom(a, d, i, rem) ==
    IF i = 0
    THEN [q |-> <<>>, r |-> rem]
    ELSE LET cur == rem * Base + a[i]
             rest == DivFrom(a, d, i - 1, cur % d)
         IN  [q |-> rest.q \o <<cur \div d>>, r |-> rest.r]

\* Quotient q and remainder r of a by d, 0 < d <= Base
BigDiv(a, d) ==
    LET qr == DivFrom(a, d, Len(a), 0) IN [q |-> Trim(qr.q), r |-> qr.r]

\* a * 2^k and the whole part of a / 2^k
ShiftLeft(a, k) ==
    IF a = <<>> THEN <<>>
    ELSE [i \in 1 .. k \div LimbBits |-> 0] \o BigTimes(a, 2 ^ (k % LimbBits))

ShiftRight(a, k) ==
    IF k \div LimbBits >= Len(a) THEN <<>>
    ELSE BigDiv(SubSeq(a, k \div LimbBits + 1, Len(a)), 2 ^ (k % LimbBits)).q

RECURSIVE LessFrom(_, _, _)
LessFrom(a, b, i) ==
    IF i = 0 THEN FALSE
    ELSE IF a[i] # b[i] THEN a[i] < b[i]
    ELSE LessFrom(a, b, i - 1)

BigLess(a, b) ==
    IF Len(a) # Len(b) THEN Len(a) < Len(b) ELSE LessFrom(a, b, Len(a))

RECURSIVE Bits(_)
Bits(n) == IF n = 0 THEN 0 ELSE 1 + Bits(n \div 2)

BitLength(a) ==
    IF a = <<>> THEN 0 ELSE LimbBits * (Len(a) - 1) + Bits(a[Len(a)])

\* A JavaScript number that is not negative, an IEEE 754 double: the pair
\* <<m, e>> is m * 2^e, with m of exactly Precision bits, or m = 0 = e.
Zero == <<<<>>, 0>>

\* Whether q, the whole part of m / 2^k, is rounded up to q + 1: `twice` is
\* twice the remainder and `unit` is 2^k, so a remainder above the half
\* rounds up, and a remainder of just the half rounds to the even q
RoundsUp(q, twice, unit, more) ==
    \/ BigLess(unit, twice)
    \/ twice = unit /\ (more \/ q[1] % 2 = 1)

\* r * 2^e, for r of Precision bits, or of one more when rounding up
\* carried into a new bit
Carried(r, e) ==
    IF BitLength(r) > Precision THEN <<ShiftRight(r, 1), e + 1>> ELSE <<r, e>>

\* The double nearest to m * 2^e, for m of Precision + k bits, k > 0, and
\* q the whole part of m / 2^k
Rounded(m, e, more, k, q) ==
    Carried(IF RoundsUp(q, ShiftLeft(BigSub(m, ShiftLeft(q, k)), 1),
                        ShiftLeft(<<1>>, k), more)
            THEN BigAdd(q, <<1>>)
            ELSE q,
            e + k)

\* The double nearest to m * 2^e, for m of Precision + k bits
Scaled(m, e, more, k) ==
    IF k <= 0 THEN <<ShiftLeft(m, -k), e + k>>
    ELSE Rounded(m, e, more, k, ShiftRight(m, k))

\* The double nearest to m * 2^e (ties to the even significand), where
\* `more` tells that the exact number is a little above m * 2^e: by less
\* than 2^e, and m has more than Precision + 1 bits then
Nearest(m, e, more) ==
    IF m = <<>> THEN Zero ELSE Scaled(m, e, more, BitLength(m) - Precision)

\* The number n of the configuration, a natural number
Num(n) == Nearest(IntToBig(n), 0, FALSE)

\* x * y
Mul(x, y) == Nearest(BigMul(x[1], y[1]), x[2] + y[2], FALSE)

\* x / d, for a natural number 0 < d <= Base
Div(x, d) ==
    LET qr == BigDiv(ShiftLeft(x[1], 2 * LimbBits), d)
    IN  Nearest(qr.q, x[2] - 2 * LimbBits, qr.r # 0)

\* m * 2^e rewritten with the exponent lo <= e
Aligned(x, lo) == ShiftLeft(x[1], x[2] - lo)

Lower(x, y) ==
    IF x = Zero THEN y[2] ELSE IF y = Zero THEN x[2]
    ELSE IF x[2] < y[2] THEN x[2] ELSE y[2]

\* x + y, and x - y for x >= y
Add(x, y) ==
    Nearest(BigAdd(Aligned(x, Lower(x, y)), Aligned(y, Lower(x, y))), Lower(x, y), FALSE)

Sub(x, y) ==
    Nearest(BigSub(Aligned(x, Lower(x, y)), Aligned(y, Lower(x, y))), Lower(x, y), FALSE)

\* x < y
Less(x, y) ==
    BigLess(Aligned(x, Lower(x, y)), Aligned(y, Lower(x, y)))

\* Math.floor(x), an integer
MathFloor(x) ==
    IF x[2] >= 0 THEN BigToInt(ShiftLeft(x[1], x[2]))
    ELSE BigToInt(ShiftRight(x[1], -x[2]))

\* Math.round(x), an integer: the whole part, and one more from a
\* fraction of a half on
MathRound(x) ==
    IF x[2] >= 0 THEN BigToInt(ShiftLeft(x[1], x[2]))
    ELSE LET k == -x[2]
             q == ShiftRight(x[1], k)
             twice == ShiftLeft(BigSub(x[1], ShiftLeft(q, k)), 1)
         IN  BigToInt(q) + (IF BigLess(twice, ShiftLeft(<<1>>, k)) THEN 0 ELSE 1)

\* x - y, of either sign: `sign` is -1 for a number below 0 and 1
\* otherwise, `size` is the number without its sign
Minus(x, y) ==
    IF Less(x, y) THEN [sign |-> -1, size |-> Sub(y, x)]
    ELSE [sign |-> 1, size |-> Sub(x, y)]

\* w <= 0
AtMostZero(w) == w.sign < 0 \/ w.size = Zero

\* const NOMINAL_DELAY = (1/RATE) * 1000, milliseconds to wait
NOMINAL_DELAY == Mul(Div(Num(1), RATE), Num(1000))

---------------------------------------------------------------------------
(* Colour model *)

\* The array [h, s, v] of numbers
HSV(h, s, v) == <<Num(h), Num(s), Num(v)>>


\* A colour string of the configuration, and what the colour library
\* answers for it: `str` is the string, `keyword` is color.keyword.hsv(str),
\* the hsv array of a CSS keyword.  For a string that is no keyword the
\* library does not answer: the call throws a TypeError (it converts by way
\* of the keyword's rgb array, which there is none of); that is `keyword`
\* being Undefined.
Red == HSV(0, 100, 100)
Blue == HSV(240, 100, 100)
Plum == HSV(300, 28, 87)
Olive == HSV(60, 100, 50)

HueSpecs ==
    { [str |-> "red",          keyword |-> Red],
      [str |-> "blue",         keyword |-> Blue],
      [str |-> "plum",         keyword |-> Plum],
      [str |-> "olive",        keyword |-> Olive],
      [str |-> "rgb(255,0,0)", keyword |-> Undefined],
      [str |-> "not-a-color",  keyword |-> Undefined] }

\* The error an update can end with: the TypeError thrown inside the
\* library, whose message does not carry the colour string
TypeError == "TypeError"

Return(v) == [thrown |-> FALSE, value |-> v, error |-> ""]
Throw == [thrown |-> TRUE, value |-> Undefined, error |-> TypeError]

\* function parseColorToHsv(str): its first statement asks the library for
\* the keyword and returns the answer.  For every other string that call
\* throws, so the tests of the rgb, hsv and 0x prefixes that follow it, and
\* their 'Unknown color' errors, are never reached.
parseColorToHsv(str) ==
    IF str.keyword # Undefined THEN Return(str.keyword) ELSE Throw

\* color.hsv.rgb(hsv): the library's conversion,
\*   h = hsv[0] / 60, s = hsv[1] / 100, v = hsv[2] / 100,
\*   hi = Math.floor(h) % 6, f = h - Math.floor(h),
\*   p = 255 * v * (1 - s), q = 255 * v * (1 - s * f),
\*   t = 255 * v * (1 - s * (1 - f)), v *= 255,
\* its results rounded with Math.round by the library's wrapper.
\* Sector is the library's switch (hi), on the rounded numbers.
Sector(hi, v, p, q, t) ==
    CASE hi = 0 -> <<v, t, p>>
      [] hi = 1 -> <<q, v, p>>
      [] hi = 2 -> <<p, v, t>>
      [] hi = 3 -> <<p, q, v>>
      [] hi = 4 -> <<t, p, v>>
      [] OTHER  -> <<v, p, q>>

hsv_rgb(hsv) ==
    LET h == Div(hsv[1], 60)
        s == Div(hsv[2], 100)
        v == Div(hsv[3], 100)
        hi == MathFloor(h) % 6
        f == Sub(h, Num(MathFloor(h)))
        V == Mul(Num(255), v)
        p == Mul(V, Sub(Num(1), s))
        q == Mul(V, Sub(Num(1), Mul(s, f)))
        t == Mul(V, Sub(Num(1), Mul(s, Sub(Num(1), f))))
        R(x) == Num(MathRound(x))
    IN  Sector(hi, R(V), R(p), R(q), R(t))

---------------------------------------------------------------------------
(* Universe and Channel *)

\* The byte a slot of the packet's Buffer keeps of a non-negative number x:
\* the fraction is dropped and the integer taken modulo 256.
ToUint8(x) == MathFloor(x) % Bytes

\* new Universe(u): this.data = packet.getSlotsData(), u.channels zeroed slots
NewData(u) == [k \in 1 .. u.channels |-> 0]

\* Variant: component i is stored at slot channel + i
_setAtOffset(cdata, channel, buf) ==
    [k \in 1 .. Len(buf) |->
        IF channel <= k - 1 /\ k - 1 - channel < Len(cdata)
        THEN ToUint8(cdata[k - channel])
        ELSE buf[k]]

\* Variant: the loop starts at 0 instead of at the channel's offset
_setFromZero(cdata, channel, buf) ==
    [k \in 1 .. Len(buf) |->
        IF k - 1 < Len(cdata) THEN ToUint8(cdata[k]) ELSE buf[k]]

\* Channel._set(data), on the buffer buf of the channel's universe:
\*   for (let i = channel; i < data.length; ++i) buf[i] = data[i]
\* A store at an index past the end of the Buffer is dropped.
_set(cdata, channel, buf) ==
    [k \in 1 .. Len(buf) |->
        IF channel <= k - 1 /\ k - 1 < Len(cdata)
        THEN ToUint8(cdata[k])
        ELSE buf[k]]

\* The candle levels [base, amplitude] of the configurations, and the
\* values Candle.flame takes
Levels == {<<50, 100>>}
Flames == {0, 12, 255}

\* Variant: base and amplitude taken the other way round
BrightnessSwapped(flame, level) ==
    Add(Mul(Div(Num(flame), 255), Num(level[1])), Num(level[2]))

\* hsv[2] = (flame * value[1]) + value[0], flame being c._candle.flame / 255
\* and value the level [base, amplitude]
Brightness(flame, level) ==
    Add(Mul(Div(Num(flame), 255), Num(level[2])), Num(level[1]))

\* The numbers Brightness and hsv_rgb give for the colours, levels and
\* flames above, computed once
Brightnesses ==
    { <<<<flame, level>>, Brightness(flame, level)>> : flame \in Flames, level \in Levels }

Conversions ==
    { <<hsv, hsv_rgb(hsv)>> :
        hsv \in { <<k[1], k[2], v>> :
                    k \in {Red, Blue, Plum, Olive},
                    v \in {Red[3], Blue[3], Plum[3], Olive[3]}
                           \cup { b[2] : b \in Brightnesses } } }

\* The entry of x in the table, and `computed` where the table has none
Known(table, x, computed) ==
    IF \E e \in table : e[1] = x
    THEN (CHOOSE e \in table : e[1] = x)[2]
    ELSE computed

\* Brightness(flame, level) and color.hsv.rgb(hsv), taken from the numbers
\* computed once where they are among them
CandleBrightness(flame, level) ==
    Known(Brightnesses, <<flame, level>>, Brightness(flame, level))

ToRgb(hsv) == Known(Conversions, hsv, hsv_rgb(hsv))

\* Variant: a Candle is built on every update
NeedsCandleAlways(cstate) == TRUE

\* if (!c._candle)
NeedsCandle(cstate) == cstate = NoCandle

\* Channel.update(), for configuration c, on the buffer buf of its universe,
\* with cstate the flame of c._candle (NoCandle if not built yet) and flame
\* the value Candle.update() moves to in this call.  The result tells
\* whether the call threw and with what error, the buffer and the candle
\* afterwards, the array passed to _set (Undefined if _set was not
\* reached), whether 'Unhandled color type' was logged, whether a Candle
\* was built and whether the candle was advanced.  A throw of
\* parseColorToHsv leaves update at its first statement.
update(c, cstate, flame, buf) ==
    LET parsed == parseColorToHsv(c.hue)
        isCandle == c.effect = "candle"
        cnext == IF isCandle THEN flame ELSE cstate
        hsv0 == parsed.value
        hsv == IF isCandle
               THEN [hsv0 EXCEPT ![3] = CandleBrightness(flame, c.level)]
               ELSE hsv0
        Out(x) == IF c.type = "hsv" THEN x ELSE ToRgb(x)
        reached == isCandle /\ ~parsed.thrown
        Result(err, b, cs, val, lg) ==
            [thrown |-> err # "", error |-> err, data |-> b, candle |-> cs,
             value |-> val, logged |-> lg,
             built |-> reached /\ NeedsCandle(cstate),
             stepped |-> reached]
        Set(out) == Result("", _set(out, c.channel, buf), cnext, out, FALSE)
    IN  IF parsed.thrown THEN Result(parsed.error, buf, cstate, Undefined, FALSE)
        ELSE IF c.type \notin {"hsv", "rgb"} THEN Result("", buf, cnext, Undefined, TRUE)
        ELSE Set(Out(hsv))

\* universes.find(u => u._config.name === name): the index of the first
\* universe of that name, 0 if there is none
FindUniverse(us, name) ==
    IF \E i \in 1 .. Len(us) : us[i].name = name
    THEN CHOOSE i \in 1 .. Len(us) :
            /\ us[i].name = name
            /\ \A j \in 1 .. i - 1 : us[j].name # name
    ELSE 0

---------------------------------------------------------------------------
(* Inputs *)

Names == <<"u1", "u2", "u3", "u4">>   \* universe names, in configuration order
SlotCounts == {2, 5}                  \* channel counts N of a universe
Offsets == 0 .. 4                     \* channel offsets
Types == {"hsv", "rgb", "xyz"}        \* output encodings, one of them unhandled
Effects == {"", "candle"}
StartTimes == {0, 100}                \* Date.now() when the process starts, ms
TickDurations == {10, 34}             \* ms a tick's updates and sends take
TimerLateness == {0, 2}               \* ms a timer fires after its delay

ChannelConfigs ==
    [universe : {Names[1], Names[2]}, channel : Offsets, type : Types,
     hue : HueSpecs, effect : Effects, level : Levels]

\* The channel configurations the server is run with: few enough to run
\* whole ticks, with a keyword colour and the two strings on which
\* parseColorToHsv throws.
ServerChannelConfigs ==
    { c \in ChannelConfigs :
        /\ c.channel \in {0, 1}
        /\ c.type = "rgb"
        /\ c.effect = ""
        /\ c.hue.keyword \in {Red, Undefined} }

NoLog == [error |-> 0, fatal |-> 0, sending |-> 0, unhandled |-> 0]
NoneDone == [updates |-> 0, sends |-> 0, timers |-> 0]

\* The state every run starts from, for a configuration us, cs read at time t
Boot(us, cs, t) ==
    /\ universes = us
    /\ channels = cs
    /\ data = <<>>
    /\ candle = [i \in 1 .. Len(cs) |-> NoCandle]
    /\ pc = "init"
    /\ sched = "Idle"
    /\ quit = FALSE
    /\ frame = 0
    /\ start = 0
    /\ now = t
    /\ timers = 0
    /\ timerWait = Zero
    /\ inFlight = 0
    /\ ci = 0
    /\ ui = 0
    /\ updated = {}
    /\ raised = {}
    /\ sent = {}
    /\ pre = <<>>
    /\ value = Undefined
    /\ error = ""
    /\ sim = [i \in 1 .. Len(cs) |-> [built |-> 0, steps |-> 0]]
    /\ wire = <<>>
    /\ log = NoLog
    /\ done = NoneDone
    /\ exitCode = NoExit

Init ==
    \E k \in 0 .. MaxUniverses, n \in SlotCounts, m \in 0 .. MaxChannels, t \in StartTimes :
        \E cs \in [1 .. m -> ServerChannelConfigs] :
            Boot([i \in 1 .. k |-> [name |-> Names[i], channels |-> n]], cs, t)

---------------------------------------------------------------------------
(* The server *)

AllChannels == 1 .. Len(channels)
AllUniverses == 1 .. Len(universes)

\* Variant: the result of find is not tested
ResolvesUnchecked(us, cs) == TRUE

\* channels.map(c => { const u = universes.find(...); if (!u) throw ... })
Resolves(us, cs) == \A c \in 1 .. Len(cs) : FindUniverse(us, cs[c].universe) # 0

\* Whether new e131.Client(address) or createPacket throws while a universe
\* is built: an answer of the transport, possible once there is a universe
TransportFailures == IF Len(universes) = 0 THEN {FALSE} ELSE BOOLEAN

\* The body of the async main function up to the first call of loop():
\* the universes are built, then the channels, which throws on a channel
\* whose universe is not found; the rejection (of that, or of a transport
\* that cannot be built) is logged by the final catch.
Startup ==
    /\ pc = "init"
    /\ \E failed \in TransportFailures :
        IF failed
        THEN /\ pc' = "fatal"
             /\ log' = [log EXCEPT !.fatal = @ + 1]
             /\ UNCHANGED <<data, start, frame, sched>>
        ELSE /\ data' = [i \in AllUniverses |-> NewData(universes[i])]
             /\ IF Resolves(universes, channels)
                THEN /\ start' = now
                     /\ frame' = 0
                     /\ sched' = "Running"
                     /\ pc' = "top"
                     /\ log' = log
                ELSE /\ pc' = "fatal"
                     /\ log' = [log EXCEPT !.fatal = @ + 1]
                     /\ UNCHANGED <<start, frame, sched>>
    /\ UNCHANGED <<universes, channels, candle, quit, now, timers, timerWait,
                   inFlight, ci, ui, updated, raised, sent, pre, value, error, sim, wire,
                   done, exitCode>>

\* Variant: the flag is not looked at
StopIgnored(q) == FALSE

\* if (quit) return resolve();
StopObserved(q) == q

\* Variant: loop goes on after the first update returned, as with
\* Promise.race in place of Promise.all
AfterUpdateRace(i, n) == IF i >= 1 \/ i >= n THEN "awaitUpdates" ELSE "updating"

\* await Promise.all(channels.map(c => c.update())): where loop stands when
\* i of the n updates have returned; it awaits once map has called them all
AfterUpdate(i, n) == IF i >= n THEN "awaitUpdates" ELSE "updating"

\* loop(), its first line with quit set: the promise of the loop resolves
LoopResolve ==
    /\ pc = "top"
    /\ StopObserved(quit)
    /\ sched' = "Stopped"
    /\ pc' = "resolved"
    /\ UNCHANGED <<universes, channels, data, candle, quit, frame, start, now,
                   timers, timerWait, inFlight, ci, ui, updated, raised, sent,
                   pre, value, error, sim, wire, log, done, exitCode>>

\* loop(), its first lines with quit not set: ++frame, and channels.map
\* begins (pre and value, which record the last update, start afresh)
LoopTick ==
    /\ pc = "top"
    /\ ~StopObserved(quit)
    /\ frame < MaxFrame
    /\ frame' = frame + 1
    /\ inFlight' = inFlight + 1
    /\ updated' = {}
    /\ raised' = {}
    /\ sent' = {}
    /\ ci' = 1
    /\ ui' = 0
    /\ pre' = data
    /\ value' = Undefined
    /\ error' = ""
    /\ pc' = AfterUpdate(0, Len(channels))
    /\ UNCHANGED <<universes, channels, data, candle, sched, quit, start, now,
                   timers, timerWait, sim, wire, log, done, exitCode>>

\* channels.map(c => c.update()), one call: update is synchronous, so a
\* throw leaves map, and loop's promise is rejected with nobody handling it
UpdateChannel ==
    /\ pc = "updating"
    /\ \E flame \in Flames :
        LET c == channels[ci]
            u == FindUniverse(universes, c.universe)
        IN  \E r \in {update(c, candle[ci], flame, data[u])} :
            /\ pre' = data
            /\ value' = r.value
            /\ error' = r.error
            /\ sim' = [sim EXCEPT ![ci] =
                           [built |-> @.built + (IF r.built THEN 1 ELSE 0),
                            steps |-> @.steps + (IF r.stepped THEN 1 ELSE 0)]]
            /\ data' = [data EXCEPT ![u] = r.data]
            /\ candle' = [candle EXCEPT ![ci] = r.candle]
            /\ done' = [done EXCEPT !.updates = @ + 1]
            /\ log' = [log EXCEPT !.unhandled = @ + (IF r.logged THEN 1 ELSE 0)]
            /\ IF r.thrown
               THEN /\ raised' = raised \cup {ci}
                    /\ pc' = "rejected"
                    /\ inFlight' = inFlight - 1
                    /\ UNCHANGED <<updated, ci>>
               ELSE /\ updated' = updated \cup {ci}
                    /\ ci' = ci + 1
                    /\ pc' = AfterUpdate(ci, Len(channels))
                    /\ UNCHANGED <<raised, inFlight>>
    /\ UNCHANGED <<universes, channels, sched, quit, frame, start, now, timers,
                   timerWait, ui, sent, wire, exitCode>>

\* await Promise.all(<the updates>) resumes: universes.map begins
ResumeUpdates ==
    /\ pc = "awaitUpdates"
    /\ ui' = 1
    /\ pc' = IF Len(universes) = 0 THEN "awaitSends" ELSE "sending"
    /\ UNCHANGED <<universes, channels, data, candle, sched, quit, frame, start,
                   now, timers, timerWait, inFlight, ci, updated, raised, sent,
                   pre, value, error, sim, wire, log, done, exitCode>>

\* Universe.send(), for universe u with slots buf, w being what the
\* transport was handed so far: the method logs and returns a resolved
\* promise; the client.send that follows the return is never reached.
send(u, buf, w) == [wire |-> w, ok |-> TRUE]

\* universes.map(u => u.send()), one call
SendUniverse ==
    /\ pc = "sending"
    /\ LET r == send(ui, data[ui], wire)
       IN  /\ wire' = r.wire
           /\ sent' = IF r.ok THEN sent \cup {ui} ELSE sent
    /\ log' = [log EXCEPT !.sending = @ + 1]
    /\ done' = [done EXCEPT !.sends = @ + 1]
    /\ ui' = ui + 1
    /\ pc' = IF ui = Len(universes) THEN "awaitSends" ELSE "sending"
    /\ UNCHANGED <<universes, channels, data, candle, sched, quit, frame, start,
                   now, timers, timerWait, inFlight, ci, updated, raised, pre,
                   value, error, sim, exitCode>>

\* const target = start + (NOMINAL_DELAY * frame), for frame f counted from
\* the reference s
Target(s, f) == Add(Num(s), Mul(NOMINAL_DELAY, Num(f)))

\* const wait = target - now, at time t
Wait(s, f, t) == Minus(Target(s, f), Num(t))

\* await Promise.all(<the sends>) resumes: the wait is computed from the
\* clock.  With wait <= 0 the error is logged and `wait = 0` assigns to a
\* const, which throws: setTimeout is not reached and loop's promise is
\* rejected.  Otherwise the next call of loop is put on a timer.
Schedule ==
    /\ pc = "awaitSends"
    /\ \E d \in TickDurations : \E wait \in {Wait(start, frame, now + d)} :
        /\ now' = now + d
        /\ IF AtMostZero(wait)
           THEN /\ log' = [log EXCEPT !.error = @ + 1]
                /\ pc' = "rejected"
                /\ UNCHANGED <<timers, timerWait, done>>
           ELSE /\ timers' = timers + 1
                /\ timerWait' = wait.size
                /\ done' = [done EXCEPT !.timers = @ + 1]
                /\ pc' = "timer"
                /\ log' = log
    /\ inFlight' = inFlight - 1
    /\ UNCHANGED <<universes, channels, data, candle, sched, quit, frame, start,
                   ci, ui, updated, raised, sent, pre, value, error, sim, wire, exitCode>>

\* The delay of setTimeout(f, w): whole milliseconds, at least one
TimerDelay(w) == IF Less(w, Num(1)) THEN 1 ELSE MathFloor(w)

\* Variant: the timer repeats, as with setInterval in place of setTimeout
TimerFireInterval ==
    /\ pc = "timer"
    /\ timers > 0
    /\ \E late \in TimerLateness : now' = now + TimerDelay(timerWait) + late
    /\ pc' = "top"
    /\ UNCHANGED <<universes, channels, data, candle, sched, quit, frame, start,
                   timers, timerWait, inFlight, ci, ui, updated, raised, sent, pre,
                   value, error, sim, wire, log, done, exitCode>>

\* The timer fires: loop is called
TimerFire ==
    /\ pc = "timer"
    /\ timers > 0
    /\ \E late \in TimerLateness : now' = now + TimerDelay(timerWait) + late
    /\ timers' = timers - 1
    /\ pc' = "top"
    /\ UNCHANGED <<universes, channels, data, candle, sched, quit, frame, start,
                   timerWait, inFlight, ci, ui, updated, raised, sent, pre, value, error, sim,
                   wire, log, done, exitCode>>

\* context.quit() or the REPL's 'exit' event: quit = true.  The REPL's
\* callbacks run from the event loop, between the runs of loop: while a
\* timer is pending, or after loop's promise was rejected.
RequestStop ==
    /\ pc \in {"timer", "rejected"}
    /\ ~quit
    /\ quit' = TRUE
    /\ UNCHANGED <<universes, channels, data, candle, pc, sched, frame, start, now,
                   timers, timerWait, inFlight, ci, ui, updated, raised, sent,
                   pre, value, error, sim, wire, log, done, exitCode>>

\* process.exit() after the loop's promise resolved: exit code 0
Exit ==
    /\ pc = "resolved"
    /\ exitCode' = 0
    /\ pc' = "exited"
    /\ UNCHANGED <<universes, channels, data, candle, sched, quit, frame, start,
                   now, timers, timerWait, inFlight, ci, ui, updated, raised,
                   sent, pre, value, error, sim, wire, log, done>>

\* After a fatal startup error nothing is left to run: the catch has
\* handled the rejection, process.exit was not reached and no exit code
\* was set, so the process ends with exit code 0.
FatalExit ==
    /\ pc = "fatal"
    /\ exitCode' = 0
    /\ pc' = "exited"
    /\ UNCHANGED <<universes, channels, data, candle, sched, quit, frame, start,
                   now, timers, timerWait, inFlight, ci, ui, updated, raised,
                   sent, pre, value, error, sim, wire, log, done>>

\* The rejection of loop's promise is handled by nobody.  Depending on the
\* runtime it ends the process with exit code 1, or it is only warned
\* about and the process lives on with no loop.
Crash ==
    /\ pc = "rejected"
    /\ exitCode' = 1
    /\ pc' = "exited"
    /\ UNCHANGED <<universes, channels, data, candle, sched, quit, frame, start,
                   now, timers, timerWait, inFlight, ci, ui, updated, raised,
                   sent, pre, value, error, sim, wire, log, done>>

\* The process living on after a rejection that was only warned about:
\* once the REPL has closed (its 'exit' has set quit) nothing is left on
\* the event loop, and the process ends with exit code 0.
Drain ==
    /\ pc = "rejected"
    /\ quit
    /\ exitCode' = 0
    /\ pc' = "exited"
    /\ UNCHANGED <<universes, channels, data, candle, sched, quit, frame, start,
                   now, timers, timerWait, inFlight, ci, ui, updated, raised,
                   sent, pre, value, error, sim, wire, log, done>>

Next ==
    \/ Startup
    \/ LoopResolve
    \/ LoopTick
    \/ UpdateChannel
    \/ ResumeUpdates
    \/ SendUniverse
    \/ Schedule
    \/ TimerFire
    \/ RequestStop
    \/ Exit
    \/ Crash
    \/ Drain
    \/ FatalExit

Spec == Init /\ [][Next]_vars

\* The server with two universes and a single channel of any configuration:
\* every offset, encoding, colour string and effect.
UpdateInit ==
    \E n1 \in SlotCounts, n2 \in SlotCounts, c \in ChannelConfigs :
        Boot(<<[name |-> Names[1], channels |-> n1],
               [name |-> Names[2], channels |-> n2]>>, <<c>>, 0)

UpdateSpec == UpdateInit /\ [][Next]_vars

\* The channel configurations of the runs with two channels: both in the
\* first universe, every offset, with and without the candle effect, two
\* keyword colours and a string on which parseColorToHsv throws
PairChannelConfigs ==
    { c \in ChannelConfigs :
        /\ c.universe = Names[1]
        /\ c.type = "hsv"
        /\ c.hue.str \in {"red", "plum", "rgb(255,0,0)"} }

\* The server with one universe and two channels in it
PairInit ==
    \E c1 \in PairChannelConfigs, c2 \in PairChannelConfigs :
        Boot(<<[name |-> Names[1], channels |-> 5]>>, <<c1, c2>>, 0)

PairSpec == PairInit /\ [][Next]_vars

---------------------------------------------------------------------------
(* Properties *)

\* C1: within a tick, no Universe send starts before every Channel update of
\* that tick has returned: whenever a send of the tick has been made or is
\* about to be made, all channels have been updated and none is pending.
C1_UpdatesPrecedeSends ==
    (pc = "sending" \/ sent # {}) =>
        /\ updated = AllChannels
        /\ raised = {}
        /\ ci = Len(channels) + 1

\* C1's case: a tick with two channels updated, one universe sent and one
\* more to send
C1_Witness ==
    /\ pc = "sending"
    /\ Cardinality(updated) >= 2
    /\ Cardinality(sent) = 1
    /\ ui = 2

\* C2: ticks never overlap: at most one tick is in flight, at most one timer
\* is pending, and a timer is pending only when no tick is in flight and
\* every update and every send of the tick that armed it has returned.
C2_TicksNeverOverlap ==
    /\ inFlight <= 1
    /\ timers <= 1
    /\ timers > 0 =>
        /\ inFlight = 0
        /\ pc = "timer"
        /\ updated = AllChannels
        /\ sent = AllUniverses

\* C2's case: the timer of a second tick is pending, armed after the updates
\* and sends of channels and universes that exist
C2_Witness ==
    /\ timers = 1
    /\ frame >= 2
    /\ updated # {}
    /\ sent # {}

\* C3: the stop flag is looked at where a tick would begin.  Set there, the
\* loop resolves and from then on nothing is updated, sent or put on a
\* timer; and the loop resolves nowhere else, so no tick in flight is cut
\* short: a tick in flight never sees the loop resolved.
C3_StopAtTopOnly ==
    [][ /\ (pc = "top" /\ quit) =>
               (pc' = "resolved" /\ sched' = "Stopped" /\ done' = done /\ data' = data)
        /\ sched = "Stopped" =>
               (sched' = "Stopped" /\ done' = done /\ data' = data
                    /\ timers' = timers /\ inFlight' = inFlight)
        /\ (sched # "Stopped" /\ sched' = "Stopped") =>
               (pc = "top" /\ quit /\ inFlight = 0 /\ timers = 0)
        /\ inFlight > 0 => sched' = "Running"
      ]_vars

\* C3's case: the loop has resolved on the flag after running ticks
C3_Witness ==
    /\ sched = "Stopped"
    /\ quit
    /\ done.updates >= 2
    /\ done.sends >= 2
    /\ frame >= 2

\* Steps of loop itself, from a timer firing to the next timer being armed
LoopStep ==
    \/ LoopResolve
    \/ LoopTick
    \/ UpdateChannel
    \/ ResumeUpdates
    \/ SendUniverse
    \/ Schedule
    \/ TimerFire
    \/ Exit

\* C4: a tick that overruns (wait <= 0) is reported once, and its successor
\* is put on a timer with wait 0: with an overrun reported and no update
\* having failed, every tick that ended has armed a timer, and the timer of
\* a tick that overran has wait 0.
C4_OverrunReschedules ==
    (log.error > 0 /\ raised = {}) =>
        /\ log.error <= frame
        /\ done.timers = frame - inFlight
        /\ (pc = "timer" /\ AtMostZero(Wait(start, frame, now))) => timerWait = Zero

\* C5: once stop is requested while the loop's promise is pending, the loop
\* can still go on to resolve it and the process ends with exit code 0 and
\* no other: in a run where no update has failed, loop has a step to take
\* until the process has exited, and the exit code is 0.
C5_StopCompletes ==
    (quit /\ sched # "Idle" /\ raised = {}) =>
        /\ exitCode \in {NoExit, 0}
        /\ exitCode = NoExit => ENABLED LoopStep

\* The channel whose update was called last in the current tick, once it
\* has passed an array to _set
LastSet == channels[ci - 1]
LastUniverse == FindUniverse(universes, LastSet.universe)

\* C6: an update of a channel with offset o, o + 3 <= N, that writes the
\* colour value c leaves buffer[o + i] = c[i] for i = 0, 1, 2 (c[i] as the
\* byte a slot holds of it).
C6_WritesAtOffset ==
    (value # Undefined /\ LastSet.channel + 3 <= universes[LastUniverse].channels) =>
        \A i \in 0 .. 2 :
            data[LastUniverse][LastSet.channel + i + 1] = ToUint8(value[i + 1])

\* C7: a channel update with offset o on a universe of N slots changes no
\* slot but those in [o, o + 3) and below N of its own universe, and no
\* buffer changes its length; nothing but an update changes a slot.
C7_WritesInsideWindow ==
    [][ pc # "init" =>
          /\ DOMAIN data' = DOMAIN data
          /\ \A u \in DOMAIN data :
                /\ Len(data'[u]) = universes[u].channels
                /\ \A k \in 1 .. Len(data[u]) :
                      data'[u][k] # data[u][k] =>
                          /\ pc = "updating"
                          /\ u = FindUniverse(universes, channels[ci].universe)
                          /\ channels[ci].channel <= k - 1
                          /\ k - 1 < channels[ci].channel + 3
                          /\ k - 1 < universes[u].channels
      ]_vars

\* C7's case: an update at offset 2 has changed a slot of its universe, and
\* left the slots below its offset and the other universe as they were
C7_Witness ==
    /\ value # Undefined
    /\ LastSet.channel = 2
    /\ Len(data[LastUniverse]) >= 3
    /\ data[LastUniverse][3] # pre[LastUniverse][3]
    /\ data[LastUniverse][1] = pre[LastUniverse][1]
    /\ Len(universes) = 2
    /\ data[3 - LastUniverse] = pre[3 - LastUniverse]

\* C8: an error raised by one channel's update does not end the tick for the
\* others: when a tick in which an update raised has ended, every other
\* channel has been updated, every universe sent, and the next tick is on
\* its way.
C8_ErrorsStayLocal ==
    (raised # {} /\ inFlight = 0) =>
        /\ updated \cup raised = AllChannels
        /\ sent = AllUniverses
        /\ pc # "rejected"
        /\ exitCode \in {NoExit, 0}

\* C9: every send hands the transport a packet with the universe's current
\* slots: there are as many packets as sends, and for each universe sent in
\* the current tick a packet carries its slots.
C9_SendTransmits ==
    /\ Len(wire) = done.sends
    /\ \A u \in sent :
          \E i \in 1 .. Len(wire) : wire[i] = [universe |-> u, slots |-> data[u]]

\* Some configured channel names a universe that is not configured
UnknownUniverse ==
    \E c \in AllChannels : \A u \in AllUniverses : universes[u].name # channels[c].universe

\* C10: with a channel naming an unknown universe, startup fails before the
\* loop begins: no update, no send and no timer ever happens, the loop is
\* never entered and the failure is logged as fatal.
C10_UnknownUniverseFailsStartup ==
    UnknownUniverse =>
        /\ done = NoneDone
        /\ timers = 0
        /\ frame = 0
        /\ sched = "Idle"
        /\ pc \in {"init", "fatal", "exited"}
        /\ pc # "init" => log.fatal = 1

\* C10's case: startup has failed on the second channel, the first one
\* naming a universe that exists
C10_Witness ==
    /\ pc = "fatal"
    /\ Len(channels) = 2
    /\ Len(universes) >= 1
    /\ FindUniverse(universes, channels[1].universe) # 0
    /\ FindUniverse(universes, channels[2].universe) = 0

\* C11: a fatal startup error is logged, and the process then exits with a
\* non-zero exit code: a process that has ended after a fatal log record
\* has an exit code above 0, and a failed startup has logged it.
C11_FatalExitsNonZero ==
    /\ pc = "fatal" => log.fatal = 1
    /\ (log.fatal > 0 /\ exitCode # NoExit) => exitCode > 0

\* The channel update() was called on last in the current tick, 0 if none
Called == IF error # "" THEN ci ELSE ci - 1

\* C12: a channel whose encoding is neither hsv nor rgb is logged and
\* skipped: its update raises no error, leaves every buffer as it was and
\* logs the encoding, and the tick it is updated in ends with every other
\* channel updated and every universe sent.
C12_UnhandledTypeSkipped ==
    \A c \in AllChannels :
        channels[c].type \notin {"hsv", "rgb"} =>
            /\ c \notin raised
            /\ Called = c => (data = pre /\ log.unhandled > 0)
            /\ (c \in updated /\ inFlight = 0) =>
                   (updated \cup raised = AllChannels /\ sent = AllUniverses)

\* The error of lines 79 and 85, 'Unknown color: ' + str: the error of the
\* program whose message carries the colour string
UnknownColor == "Unknown color: str"

\* A colour string that denotes no colour
NotAColor(str) == str.str = "not-a-color"

\* C13: for a colour string that denotes no colour, parsing fails with an
\* error that names the string, and the update that asked for it writes
\* nothing: the update ends with that error and every buffer is as before.
C13_UnknownColorFails ==
    (Called >= 1 /\ NotAColor(channels[Called].hue)) =>
        (error = UnknownColor /\ data = pre)

\* C14: for a candle channel with level [base, amplitude], the brightness
\* that replaces the value component on a tick is base + flame / 255 *
\* amplitude: the number that sum and product give, which is the exact
\* one to well within 1 / 510 (255 times it rounds to 255 * base + flame *
\* amplitude).  It lies in [base, base + amplitude] for a flame in
\* [0, 255]; hue and saturation are those of the parsed colour.  Seen in
\* the array the update has passed to _set when the updates of a tick have
\* returned: the hsv array itself, or its conversion to rgb.
C14_CandleBrightness ==
    (pc = "awaitUpdates" /\ Called >= 1 /\ value # Undefined
        /\ channels[Called].effect = "candle") =>
        LET c == channels[Called]
            flame == candle[Called]
            base == c.level[1]
            amplitude == c.level[2]
            brightness == Add(Num(base), Mul(Div(Num(flame), 255), Num(amplitude)))
            parsed == parseColorToHsv(c.hue).value
            hsv == <<parsed[1], parsed[2], brightness>>
        IN  /\ flame \in 0 .. 255
            /\ MathRound(Mul(brightness, Num(255))) = 255 * base + flame * amplitude
            /\ ~Less(brightness, Num(base))
            /\ ~Less(Num(base + amplitude), brightness)
            /\ value = IF c.type = "hsv" THEN hsv ELSE hsv_rgb(hsv)

\* C14's case: on a second tick a candle channel of encoding hsv has
\* written a brightness strictly between base and base + amplitude
C14_Witness ==
    /\ pc = "awaitUpdates"
    /\ Called >= 1
    /\ value # Undefined
    /\ channels[Called].effect = "candle"
    /\ channels[Called].type = "hsv"
    /\ frame >= 2
    /\ Less(Num(channels[Called].level[1]), value[3])
    /\ Less(value[3], Num(channels[Called].level[1] + channels[Called].level[2]))

\* C15: a candle channel constructs at most one Flicker Simulator, on its
\* first update; every update of the channel that reaches the effect
\* advances that simulator exactly once and constructs no other; no step
\* takes a simulator back to its unconstructed state, and no step other
\* than an update of the channel itself touches the channel's simulator.
C15_OneSimulatorPerChannel ==
    [][\A c \in AllChannels :
          LET own == /\ pc = "updating"
                     /\ ci = c
                     /\ channels[c].effect = "candle"
                     /\ ~parseColorToHsv(channels[c].hue).thrown
          IN  /\ sim'[c].built <= 1
              /\ sim'[c].built >= sim[c].built
              /\ candle[c] # NoCandle => candle'[c] # NoCandle
              /\ own => (sim'[c].built = 1 /\ sim'[c].steps = sim[c].steps + 1)
              /\ ~own => (sim'[c] = sim[c] /\ candle'[c] = candle[c])]_vars

\* C15's case: two candle channels, each updated in a second tick
C15_Witness ==
    /\ Len(channels) = 2
    /\ \A c \in AllChannels :
          /\ channels[c].effect = "candle"
          /\ sim[c].built = 1
          /\ sim[c].steps = 2

\* The red, green and blue bytes of the colour a colour string denotes (a
\* CSS keyword's are those of its definition), Undefined if it denotes none
RgbOf(str) ==
    CASE str.str \in {"red", "rgb(255,0,0)"} -> <<255, 0, 0>>
      [] str.str = "blue" -> <<0, 0, 255>>
      [] str.str = "plum" -> <<221, 160, 221>>
      [] str.str = "olive" -> <<128, 128, 0>>
      [] OTHER -> Undefined

\* The universe of the only channel of a run with one channel
FirstUniverse == FindUniverse(universes, channels[1].universe)

\* A channel at offset 0 with encoding rgb, no effect and a colour string
\* that denotes a colour, in a universe of at least 3 slots, in the first
\* tick
PlainRgbAtZero ==
    /\ Len(channels) = 1
    /\ channels[1].channel = 0
    /\ channels[1].type = "rgb"
    /\ channels[1].effect = ""
    /\ RgbOf(channels[1].hue) # Undefined
    /\ universes[FirstUniverse].channels >= 3
    /\ frame = 1

\* C16: for such a channel, once its update has been called the update has
\* raised no error and the first three slots of its universe hold the red,
\* green and blue bytes of its colour; they still do when the universe's
\* send has been called, and that send reported success.
C16_RgbEndToEnd ==
    (PlainRgbAtZero /\ Called = 1) =>
        LET rgb == RgbOf(channels[1].hue)
            sendCalled == \/ pc = "sending" /\ ui > FirstUniverse
                          \/ pc \in {"awaitSends", "timer"}
        IN  /\ error = ""
            /\ \A i \in 1 .. 3 : data[FirstUniverse][i] = rgb[i]
            /\ sendCalled => FirstUniverse \in sent

\* C17: an update of a channel whose offset is 3 or more leaves every
\* buffer as it was and raises no error.
C17_LargeOffsetWritesNothing ==
    (Called >= 1 /\ channels[Called].channel >= 3) =>
        (data = pre /\ error = "")

\* C20: for a channel with offset o in {0, 1, 2} whose update hands a
\* 3-component value c to _set, the slots i with o <= i < 3 hold c[i] (as
\* the byte the Buffer stores for it) and every other slot of every buffer
\* is as it was before the update: slots below o, slots 3 and above.
C20_WritesSlotsBelowThree ==
    (Called >= 1 /\ channels[Called].channel \in {0, 1, 2} /\ value # Undefined) =>
        LET o == channels[Called].channel
            u == FindUniverse(universes, channels[Called].universe)
        IN  /\ Len(value) = 3
            /\ \A w \in AllUniverses : w # u => data[w] = pre[w]
            /\ \A i \in 0 .. Len(data[u]) - 1 :
                  data[u][i + 1] = IF o <= i /\ i < 3
                                   THEN ToUint8(value[i + 1])
                                   ELSE pre[u][i + 1]

\* C20's case: a channel at offset 1 of a universe with 5 slots wrote its
\* second and third components, both non-zero, to slots 1 and 2
C20_Witness ==
    /\ Called >= 1
    /\ channels[Called].channel = 1
    /\ value # Undefined
    /\ LET u == FindUniverse(universes, channels[Called].universe)
       IN  /\ Len(data[u]) = 5
           /\ value[1] # Zero
           /\ data[u] = <<0, ToUint8(value[2]), ToUint8(value[3]), 0, 0>>
           /\ data[u][2] > 0
           /\ data[u][3] > 0

Disjoint(c, d) ==
    /\ c # d
    /\ channels[c].universe = channels[d].universe
    /\ \/ channels[c].channel + 3 <= channels[d].channel
       \/ channels[d].channel + 3 <= channels[c].channel

\* The buffer of the universe of two channels after their first updates
\* made in the other order, second channel first, with the flames they had
UpdatedInReverse ==
    LET u == FindUniverse(universes, channels[1].universe)
        first == update(channels[2], NoCandle, candle'[2], NewData(universes[u]))
    IN  update(channels[1], NoCandle, candle'[1], first.data).data

\* C19: an update changes no slot inside the window of another channel
\* whose window is disjoint from its own; and for two channels with
\* disjoint windows, the buffer at the end of the first tick's update phase
\* is the one the updates give when made in the other order.
C19_OrderIrrelevant ==
    [][/\ pc = "updating" =>
            \A d \in AllChannels :
                Disjoint(ci, d) =>
                    LET u == FindUniverse(universes, channels[d].universe)
                    IN  \A k \in 1 .. Len(data[u]) :
                            (channels[d].channel <= k - 1 /\ k - 1 < channels[d].channel + 3)
                                => data'[u][k] = data[u][k]
       /\ (pc = "updating" /\ pc' = "awaitUpdates" /\ frame = 1
            /\ Len(channels) = 2 /\ Disjoint(1, 2)) =>
            data'[FindUniverse(universes, channels[1].universe)] = UpdatedInReverse]_vars

\* C19's case: the first tick's update phase has ended for a channel at
\* offset 3 updated before a channel at offset 0 of another colour, which
\* wrote non-zero bytes
C19_Witness ==
    /\ Len(channels) = 2
    /\ channels[1].channel = 3
    /\ channels[2].channel = 0
    /\ channels[1].hue # channels[2].hue
    /\ pc = "awaitUpdates"
    /\ frame = 1
    /\ data[1][2] > 0
    /\ data[1][3] > 0

===========================================================================
